---------------------------- MODULE Spec2Model ----------------------------
(***************************************************************************)
(* mypy/utils.py: array2df (melt an N-dimensional array into a long-format *)
(* table) and its helper _check_dict (normalisation of one dimension's     *)
(* group specification).                                                   *)
(*                                                                         *)
(* Python values are tagged records, so that isinstance() is a test of the *)
(* tag.  A str is a sequence of one-character strings, so that format()    *)
(* and str() build their results character by character.  A dict is the    *)
(* sequence of its items in insertion order, which is the order in which   *)
(* Python iterates it.                                                     *)
(***************************************************************************)
EXTENDS Integers, Sequences, FiniteSets, TLC

VARIABLES arr, args, dim_names, groups, df, idx, pc, err, retval

vars == <<arr, args, dim_names, groups, df, idx, pc, err, retval>>

\* ----------------------------------------------------------------- bounds
\* Largest number of dimensions of the arrays of the general call families.
MaxDim == 2
\* Largest length of one dimension (positions 0..MaxLen are named in group
\* specifications, so that one position past the end can be named too).
MaxLen == 2
\* Dimensions beyond the letter pool in the many-dimensional call family.
ExtraDims == 1

\* ------------------------------------------------------------ Python values
PyNone == [t |-> "None"]
PyInt(n) == [t |-> "int", v |-> n]
PyStr(s) == [t |-> "str", v |-> s]
PyTuple(s) == [t |-> "tuple", v |-> s]
PyList(s) == [t |-> "list", v |-> s]
PyDict(items) == [t |-> "dict", v |-> items]
\* The cell of a DataFrame created with an index and no data.
NaN == [t |-> "NaN"]

isinstance(x, type) == x.t = type

Item(k, v) == [k |-> k, v |-> v]

\* The outcome of an expression: a value, or the exception it raises.
Ok(v) == [ok |-> TRUE, val |-> v]
Raise(e) == [ok |-> FALSE, err |-> e]

SeqRange(s) == {s[i] : i \in 1..Len(s)}

HasKey(d, k) == \E i \in 1..Len(d.v) : d.v[i].k = k

\* d[k] = v on a dict: an existing key keeps its place, a new key is appended.
setitem(d, k, v) ==
    IF HasKey(d, k)
    THEN PyDict([i \in 1..Len(d.v) |-> IF d.v[i].k = k THEN Item(k, v) ELSE d.v[i]])
    ELSE PyDict(Append(d.v, Item(k, v)))

\* getitem with one error for every container: KeyError for a list too.
getitem_keyerror(c, k) ==
    IF isinstance(c, "dict")
    THEN IF HasKey(c, k)
         THEN Ok(c.v[CHOOSE i \in 1..Len(c.v) : c.v[i].k = k].v)
         ELSE Raise("KeyError")
    ELSE IF k.v < Len(c.v) THEN Ok(c.v[k.v + 1]) ELSE Raise("KeyError")

\* c[k]: a dict raises KeyError on a missing key, a list or tuple raises
\* IndexError on an index past its end (k is a non-negative int here).
getitem(c, k) ==
    IF isinstance(c, "dict")
    THEN IF HasKey(c, k)
         THEN Ok(c.v[CHOOSE i \in 1..Len(c.v) : c.v[i].k = k].v)
         ELSE Raise("KeyError")
    ELSE IF k.v < Len(c.v) THEN Ok(c.v[k.v + 1]) ELSE Raise("IndexError")

\* len(c)
len(c) == Len(c.v)

\* -------------------------------------------------------------------- str
Digits == <<"0", "1", "2", "3", "4", "5", "6", "7", "8", "9">>

RECURSIVE str(_)
\* str(i) of a non-negative int: its decimal digits.
str(i) == IF i < 10 THEN <<Digits[i + 1]>>
          ELSE str(i \div 10) \o <<Digits[(i % 10) + 1]>>

\* list('ijklmnop')
LetterPool == <<"i", "j", "k", "l", "m", "n", "o", "p">>

\* 'dim_{}'.format(l)
format_dim(l) == <<"d", "i", "m", "_">> \o <<l>>

\* ------------------------------------------------------------ _check_dict
\* The (key, element) pairs the str-keyed branch visits, in order:
\* for k in dct.keys(): for val in dct[k].
RECURSIVE StrKeyVisits(_)
StrKeyVisits(items) ==
    IF items = <<>> THEN <<>>
    ELSE [i \in 1..Len(Head(items).v.v) |->
              Item(Head(items).v.v[i], Head(items).k)]
         \o StrKeyVisits(Tail(items))

\* TupleKeyVisits with "new_dct[k[0]] = val" for the inner loop: only the
\* first position of every tuple.
RECURSIVE TupleKeyVisits_first(_)
TupleKeyVisits_first(items) ==
    IF items = <<>> THEN <<>>
    ELSE [i \in 1..(IF Len(Head(items).k.v) > 0 THEN 1 ELSE 0) |->
              Item(Head(items).k.v[i], Head(items).v)]
         \o TupleKeyVisits_first(Tail(items))

\* The (element, value) pairs the tuple-keyed branch visits, in order:
\* for k, val in dct.items(): for i in k.
RECURSIVE TupleKeyVisits(_)
TupleKeyVisits(items) ==
    IF items = <<>> THEN <<>>
    ELSE [i \in 1..Len(Head(items).k.v) |->
              Item(Head(items).k.v[i], Head(items).v)]
         \o TupleKeyVisits(Tail(items))

RECURSIVE Fill(_, _)
\* new_dct[k] = v for every visited pair, starting from new_dct = d.
Fill(d, visits) ==
    IF visits = <<>> THEN d
    ELSE Fill(setitem(d, Head(visits).k, Head(visits).v), Tail(visits))

\* The set the branch collects (vals_set / i_set).
Collected(visits) == {visits[i].k : i \in 1..Len(visits)}

str_keys(dct) == \A i \in 1..Len(dct.v) : isinstance(dct.v[i].k, "str")
tuple_keys(dct) == \A i \in 1..Len(dct.v) : isinstance(dct.v[i].k, "tuple")

\* _check_dict with "assert len(...) <= dim_len" in the two dict branches.
_check_dict_atmost(dct, dim_len) ==
    IF isinstance(dct, "dict")
    THEN IF str_keys(dct)
         THEN IF Cardinality(Collected(StrKeyVisits(dct.v))) <= dim_len
              THEN Ok(Fill(PyDict(<<>>), StrKeyVisits(dct.v)))
              ELSE Raise("AssertionError")
         ELSE IF tuple_keys(dct)
              THEN IF Cardinality(Collected(TupleKeyVisits(dct.v))) <= dim_len
                   THEN Ok(Fill(PyDict(<<>>), TupleKeyVisits(dct.v)))
                   ELSE Raise("AssertionError")
              ELSE Ok(dct)
    ELSE IF len(dct) = dim_len THEN Ok(dct) ELSE Raise("AssertionError")

\* _check_dict with the length check of the non-dict branch in the last dict
\* branch as well.
_check_dict_validating(dct, dim_len) ==
    IF isinstance(dct, "dict")
    THEN IF str_keys(dct)
         THEN IF Cardinality(Collected(StrKeyVisits(dct.v))) = dim_len
              THEN Ok(Fill(PyDict(<<>>), StrKeyVisits(dct.v)))
              ELSE Raise("AssertionError")
         ELSE IF tuple_keys(dct)
              THEN IF Cardinality(Collected(TupleKeyVisits(dct.v))) = dim_len
                   THEN Ok(Fill(PyDict(<<>>), TupleKeyVisits(dct.v)))
                   ELSE Raise("AssertionError")
              ELSE IF len(dct) = dim_len THEN Ok(dct) ELSE Raise("AssertionError")
    ELSE IF len(dct) = dim_len THEN Ok(dct) ELSE Raise("AssertionError")

_check_dict(dct, dim_len) ==
    IF isinstance(dct, "dict")
    THEN IF str_keys(dct)
         THEN IF Cardinality(Collected(StrKeyVisits(dct.v))) = dim_len
              THEN Ok(Fill(PyDict(<<>>), StrKeyVisits(dct.v)))
              ELSE Raise("AssertionError")
         ELSE IF tuple_keys(dct)
              THEN IF Cardinality(Collected(TupleKeyVisits(dct.v))) = dim_len
                   THEN Ok(Fill(PyDict(<<>>), TupleKeyVisits(dct.v)))
                   ELSE Raise("AssertionError")
              ELSE Ok(dct)
    ELSE IF len(dct) = dim_len THEN Ok(dct) ELSE Raise("AssertionError")

\* ---------------------------------------------------------------- product
\* product with the first dimension varying fastest.
RECURSIVE product_colmajor(_)
product_colmajor(shape) ==
    IF shape = <<>> THEN << <<>> >>
    ELSE LET pool == shape[1]
             result == product_colmajor(Tail(shape))
         IN  [j \in 1..(Len(result) * pool) |->
                 <<(j - 1) % pool>> \o result[((j - 1) \div pool) + 1]]

RECURSIVE product(_)
\* itertools.product(*map(range, shape)) as the sequence it yields:
\* result = [[]]; for pool in pools: result = [x+[y] for x in result for y in pool]
product(shape) ==
    IF shape = <<>> THEN << <<>> >>
    ELSE LET n == Len(shape)
             pool == shape[n]
             result == product(SubSeq(shape, 1, n - 1))
         IN  [j \in 1..(Len(result) * pool) |->
                 Append(result[((j - 1) \div pool) + 1], (j - 1) % pool)]


\* ------------------------------------------------------------ numpy array
\* An array is its shape and its elements, one per multi-index address.
Addresses(shape) ==
    LET longest == CHOOSE m \in SeqRange(shape) \cup {0} :
                       \A d \in 1..Len(shape) : shape[d] <= m
    IN  {a \in [1..Len(shape) -> 0..longest] : \A d \in 1..Len(shape) : a[d] < shape[d]}

ndim(a) == Len(a.shape)
size(a) == Cardinality(DOMAIN a.data)

\* ---------------------------------------------------------------- array2df
\* The outcome of a comprehension: the first exception raised, or all values.
FirstErr(outs) ==
    IF \E i \in 1..Len(outs) : ~outs[i].ok
    THEN Raise(outs[CHOOSE i \in 1..Len(outs) :
                       /\ ~outs[i].ok
                       /\ \A j \in 1..(i - 1) : outs[j].ok].err)
    ELSE Ok([i \in 1..Len(outs) |-> outs[i].val])

\* dim_letters = list('ijklmnop')[:n_dim]
dim_letters(n_dim) ==
    SubSeq(LetterPool, 1, IF n_dim < Len(LetterPool) THEN n_dim ELSE Len(LetterPool))

\* {dim: 'dim_{}'.format(l) for dim, l in enumerate(dim_letters)}
default_dim_names(letters) ==
    PyDict([i \in 1..Len(letters) |-> Item(PyInt(i - 1), PyStr(format_dim(letters[i])))])

\* default_group with the positions labelled from 1.
default_group_from1(letters, dim, dim_len) ==
    IF dim_len = 0 THEN Ok(PyDict(<<>>))
    ELSE IF dim >= Len(letters) THEN Raise("IndexError")
    ELSE Ok(PyDict([i \in 1..dim_len |->
                       Item(PyInt(i - 1), PyStr(<<letters[dim + 1]>> \o str(i)))]))

\* default_group with dim_letters[dim] looked up once, before the comprehension.
default_group_eager(letters, dim, dim_len) ==
    IF dim >= Len(letters) THEN Raise("IndexError")
    ELSE Ok(PyDict([i \in 1..dim_len |->
                       Item(PyInt(i - 1), PyStr(<<letters[dim + 1]>> \o str(i - 1)))]))

\* {i: dim_letters[dim] + str(i) for i in range(shape[dim])}: dim_letters[dim]
\* is evaluated once per position, so not at all for a dimension of length 0.
default_group(letters, dim, dim_len) ==
    IF dim_len = 0 THEN Ok(PyDict(<<>>))
    ELSE IF dim >= Len(letters) THEN Raise("IndexError")
    ELSE Ok(PyDict([i \in 1..dim_len |->
                       Item(PyInt(i - 1), PyStr(<<letters[dim + 1]>> \o str(i - 1)))]))

\* {dim: {...} for dim in range(n_dim)}
default_groups(letters, shape) ==
    LET outs == FirstErr([i \in 1..Len(shape) |-> default_group(letters, i - 1, shape[i])])
    IN  IF outs.ok
        THEN Ok(PyDict([i \in 1..Len(shape) |-> Item(PyInt(i - 1), outs.val[i])]))
        ELSE outs

\* check_group with every specification checked against shape[0].
check_group_dim0(raw, dim, shape) ==
    IF dim >= Len(shape) THEN Raise("IndexError") ELSE _check_dict(raw, shape[1])

\* _check_dict(groups[dim], shape[dim]): shape[dim] raises IndexError when
\* the array has no dimension dim.
check_group(raw, dim, shape) ==
    IF dim >= Len(shape) THEN Raise("IndexError") ELSE _check_dict(raw, shape[dim + 1])

\* The else branch of "if groups is None": a dict keeps its keys, a list its
\* order; anything else is left as it is.
check_groups(grps, shape) ==
    IF isinstance(grps, "dict")
    THEN LET outs == FirstErr([i \in 1..Len(grps.v) |->
                                  check_group(grps.v[i].v, grps.v[i].k.v, shape)])
         IN  IF outs.ok
             THEN Ok(PyDict([i \in 1..Len(grps.v) |-> Item(grps.v[i].k, outs.val[i])]))
             ELSE outs
    ELSE IF isinstance(grps, "list")
    THEN LET outs == FirstErr([i \in 1..Len(grps.v) |->
                                  check_group(grps.v[i], i - 1, shape)])
         IN  IF outs.ok THEN Ok(PyList(outs.val)) ELSE outs
    ELSE Ok(grps)

\* col_names = [value_name] + [dim_names[i] for i in range(n_dim)]
col_names(value_name, names, n_dim) ==
    LET outs == FirstErr([i \in 1..n_dim |-> getitem(names, PyInt(i - 1))])
    IN  IF outs.ok THEN Ok(<<value_name>> \o outs.val) ELSE outs

\* pd.DataFrame(columns=col_names, index=np.arange(arr.size)): every cell NaN,
\* every column of dtype object.  A row maps a column name to its cell.
DataFrame(columns, n_rows) ==
    [columns |-> columns,
     rows    |-> [k \in 1..n_rows |-> [c \in SeqRange(columns) |-> NaN]],
     dtypes  |-> "object"]

RECURSIVE fill_dims(_, _, _, _, _)
\* for dim_idx, dim_adr in enumerate(adr):
\*     df.loc[idx, dim_names[dim_idx]] = groups[dim_idx][dim_adr]
\* from dimension dim_idx on; stops at the first exception.
fill_dims(row, adr, dim_idx, names, grps) ==
    IF dim_idx = Len(adr) THEN [row |-> row, err |-> "none"]
    ELSE LET g == getitem(grps, PyInt(dim_idx))
         IN  IF ~g.ok THEN [row |-> row, err |-> g.err]
             ELSE LET label == getitem(g.val, PyInt(adr[dim_idx + 1]))
                  IN  IF ~label.ok THEN [row |-> row, err |-> label.err]
                      ELSE fill_dims(
                              [row EXCEPT ![getitem(names, PyInt(dim_idx)).val] = label.val],
                              adr, dim_idx + 1, names, grps)

\* One pass of the body of "for idx, adr in enumerate(product(...))".
fill_row(row, adr, value_name, names, grps, a) ==
    fill_dims([row EXCEPT ![value_name] = a.data[adr]], adr, 0, names, grps)

\* ---------------------------------------------------------------- actions
\* Lines 324-330: n_dim, shape, dim_letters and the default dim_names.
NameDims ==
    /\ pc = "start"
    /\ dim_names' = IF args.dim_names = PyNone
                    THEN default_dim_names(dim_letters(ndim(arr)))
                    ELSE args.dim_names
    /\ pc' = "named"
    /\ UNCHANGED <<arr, args, groups, df, idx, err, retval>>

\* Lines 331-340: the default groups, or the normalisation of the given ones.
MakeGroups ==
    /\ pc = "named"
    /\ LET out == IF args.groups = PyNone
                  THEN default_groups(dim_letters(ndim(arr)), arr.shape)
                  ELSE check_groups(args.groups, arr.shape)
       IN  IF out.ok
           THEN /\ groups' = out.val
                /\ pc' = "grouped"
                /\ err' = err
           ELSE /\ groups' = groups
                /\ pc' = "raised"
                /\ err' = out.err
    /\ UNCHANGED <<arr, args, dim_names, df, idx, retval>>

\* Lines 342-344: the column names and the empty frame.
InitFrame ==
    /\ pc = "grouped"
    /\ LET out == col_names(args.value_name, dim_names, ndim(arr))
       IN  IF out.ok
           THEN /\ df' = DataFrame(out.val, size(arr))
                /\ idx' = 0
                /\ pc' = "fill"
                /\ err' = err
           ELSE /\ UNCHANGED <<df, idx>>
                /\ pc' = "raised"
                /\ err' = out.err
    /\ UNCHANGED <<arr, args, dim_names, groups, retval>>

\* Lines 347-351: one iteration of the loop over the addresses.
FillRow ==
    /\ pc = "fill"
    /\ idx < Len(product(arr.shape))
    /\ LET adr == product(arr.shape)[idx + 1]
           out == fill_row(df.rows[idx + 1], adr, args.value_name, dim_names, groups, arr)
       IN  /\ df' = [df EXCEPT !.rows[idx + 1] = out.row]
           /\ IF out.err = "none"
              THEN /\ idx' = idx + 1
                   /\ pc' = pc
                   /\ err' = err
              ELSE /\ idx' = idx
                   /\ pc' = "raised"
                   /\ err' = out.err
    /\ UNCHANGED <<arr, args, dim_names, groups, retval>>

\* Lines 353-355: df.infer_objects() is supported and gives the frame.
InferObjects ==
    /\ pc = "fill"
    /\ idx = Len(product(arr.shape))
    /\ df' = [df EXCEPT !.dtypes = "infer_objects"]
    /\ pc' = "inferred"
    /\ UNCHANGED <<arr, args, dim_names, groups, idx, err, retval>>

\* Lines 353-359: df.infer_objects() raises, the bare except catches it and
\* df.convert_objects(convert_numeric=True) gives the frame.
ConvertObjects ==
    /\ pc = "fill"
    /\ idx = Len(product(arr.shape))
    /\ df' = [df EXCEPT !.dtypes = "convert_objects"]
    /\ pc' = "inferred"
    /\ UNCHANGED <<arr, args, dim_names, groups, idx, err, retval>>

\* Lines 353-359: df.infer_objects() raises and df.convert_objects() raises
\* too, inside the except clause, where nothing catches it.
ConvertFails ==
    /\ pc = "fill"
    /\ idx = Len(product(arr.shape))
    /\ pc' = "raised"
    /\ err' = "AttributeError"
    /\ UNCHANGED <<arr, args, dim_names, groups, df, idx, retval>>

\* Line 360: return df.
Return ==
    /\ pc = "inferred"
    /\ retval' = df
    /\ pc' = "returned"
    /\ UNCHANGED <<arr, args, dim_names, groups, df, idx, err>>

Next ==
    \/ NameDims
    \/ MakeGroups
    \/ InitFrame
    \/ FillRow
    \/ InferObjects
    \/ ConvertObjects
    \/ ConvertFails
    \/ Return

\* ------------------------------------------------------------------ inputs
S(chars) == PyStr(chars)

Value == S(<<"v", "a", "l", "u", "e">>)
ArrayValue == S(<<"a", "r", "r", "a", "y", "_", "v", "a", "l", "u", "e">>)
First == S(<<"f", "i", "r", "s", "t">>)
Second == S(<<"s", "e", "c", "o", "n", "d">>)
DimI == S(format_dim("i"))
DimJ == S(format_dim("j"))
LabelA == S(<<"A">>)
LabelB == S(<<"B">>)
LabelAbc == S(<<"a", "b", "c">>)
LabelD == S(<<"d">>)

Labels == {LabelA, LabelB}
\* Names given for dimensions: one of them is the default value_name.
DimNameStrs == {First, Value}
\* value_name: the default, the docstring's, and the default name of dimension 0.
ValueNames == {Value, ArrayValue, DimI}

SeqsUpTo(T, n) == UNION {[1..k -> T] : k \in 0..n}

RECURSIVE Prod(_)
Prod(shape) == IF shape = <<>> THEN 1 ELSE Head(shape) * Prod(Tail(shape))

\* The position of an address in row-major (C) order.
RowMajorIndex(shape, adr) ==
    LET RECURSIVE Rank(_)
        Rank(d) == IF d = 0 THEN 0 ELSE Rank(d - 1) * shape[d] + adr[d]
    IN  Rank(Len(shape))

\* np.arange(size).reshape(shape)
Arange(shape) ==
    [shape |-> shape,
     data  |-> [a \in Addresses(shape) |-> PyInt(RowMajorIndex(shape, a))]]

\* Arrays of 0 and 1 with at most one 1.
OneHots(shape) ==
    {[shape |-> shape, data |-> [a \in Addresses(shape) |-> PyInt(0)]]}
    \cup {[shape |-> shape,
           data  |-> [a \in Addresses(shape) |-> PyInt(IF a = hot THEN 1 ELSE 0)]]
          : hot \in Addresses(shape)}

\* Every 2x2 array of 0 and 1.
TwoByTwos ==
    {[shape |-> <<2, 2>>, data |-> f] : f \in [Addresses(<<2, 2>>) -> {PyInt(0), PyInt(1)}]}

Shapes == UNION {[1..n -> 0..MaxLen] : n \in 0..MaxDim}

DefaultArrays == UNION {OneHots(sh) \cup {Arange(sh)} : sh \in Shapes} \cup TwoByTwos

\* A dict over the given int keys (ascending, at most MaxLen + MaxDim), an
\* item per key.
DictOver(ks, f) ==
    LET all == [i \in 1..(MaxLen + MaxDim + 1) |-> i - 1]
        In(k) == k \in ks
        sel == SelectSeq(all, In)
    IN  PyDict([i \in 1..Len(sel) |-> Item(PyInt(sel[i]), f[sel[i]])])

\* dim_names as a list with an entry per dimension or one too few, and as a
\* dict with a key per dimension or one key missing.
DimNamesFor(n) ==
    {PyList(l) : l \in UNION {[1..k -> DimNameStrs] : k \in {n, n - 1} \cap (0..n)}}
    \cup {DictOver(ks, f) :
            ks \in {0..(n - 1)} \cup {(0..(n - 1)) \ {d} : d \in 0..(n - 1)},
            f \in [0..(n - 1) -> DimNameStrs]}

\* Positions named in group specifications: one past the longest dimension.
Positions == {PyInt(p) : p \in 0..MaxLen}
PosSeqs == SeqsUpTo(Positions, 2)

\* str -> list of positions, with one or two labels, in either order.
LabelKeyedSpecs ==
    {PyDict(<<>>)}
    \cup {PyDict(<<Item(l, PyList(ps))>>) : l \in Labels, ps \in PosSeqs}
    \cup {PyDict(<<Item(l[1], PyList(ps1)), Item(l[2], PyList(ps2))>>) :
            l \in {p \in Labels \X Labels : p[1] # p[2]},
            ps1 \in PosSeqs, ps2 \in PosSeqs}

\* tuple of positions -> label, with one or two keys.
TupleKeyedSpecs ==
    {PyDict(<<Item(PyTuple(k), l)>>) : k \in PosSeqs, l \in Labels}
    \cup {PyDict(<<Item(PyTuple(k[1]), l1), Item(PyTuple(k[2]), l2)>>) :
            k \in {p \in PosSeqs \X PosSeqs : p[1] # p[2]},
            l1 \in Labels, l2 \in Labels}

\* position -> label over any set of positions.
IntKeyedSpecs ==
    UNION {{DictOver(ks, f) : f \in [ks -> Labels]} : ks \in (SUBSET (0..MaxLen)) \ {{}}}

\* A sequence of labels, position by position.
ListSpecs == {PyList(l) : l \in SeqsUpTo(Labels, MaxLen + 1)}

\* Dicts whose keys are of two different types.
MixedSpecs ==
    LET StrItems == {Item(l, PyList(<<p>>)) : l \in Labels, p \in Positions}
        TupleItems == {Item(PyTuple(<<p>>), l) : l \in Labels, p \in Positions}
        IntItems == {Item(p, l) : l \in Labels, p \in Positions}
        Pairs == (StrItems \X TupleItems) \cup (TupleItems \X StrItems)
                 \cup (StrItems \X IntItems) \cup (IntItems \X TupleItems)
    IN  {PyDict(<<pr[1], pr[2]>>) : pr \in Pairs}

\* groups=[spec] and groups={0: spec} for a one-dimensional array.
GroupsFor1(spec) == {PyList(<<spec>>), PyDict(<<Item(PyInt(0), spec)>>)}

\* For every dimension length, the same mapping (even positions "A", odd
\* positions "B") in the four forms, and the dict without its last position.
SmallSpecs ==
    LET m(p) == IF p % 2 = 0 THEN LabelA ELSE LabelB
        Evens(n) == SelectSeq([i \in 1..n |-> PyInt(i - 1)], LAMBDA p : p.v % 2 = 0)
        Odds(n) == SelectSeq([i \in 1..n |-> PyInt(i - 1)], LAMBDA p : p.v % 2 = 1)
    IN  UNION {{PyList([i \in 1..n |-> m(i - 1)]),
                PyDict([i \in 1..n |-> Item(PyInt(i - 1), m(i - 1))]),
                PyDict([i \in 1..(n - 1) |-> Item(PyInt(i - 1), m(i - 1))]),
                PyDict(<<Item(LabelB, PyList(Odds(n))), Item(LabelA, PyList(Evens(n)))>>),
                PyDict(<<Item(PyTuple(Evens(n)), LabelA), Item(PyTuple(Odds(n)), LabelB)>>)}
               : n \in 1..MaxLen}

\* groups as a list with an entry per dimension or one too few, and as a dict
\* with a key per dimension, one key missing, or one key too many.
GroupsFor2 ==
    {PyList(<<s1, s2>>) : s1 \in SmallSpecs, s2 \in SmallSpecs}
    \cup {PyList(<<s1>>) : s1 \in SmallSpecs}
    \cup {PyDict(<<Item(PyInt(1), s2), Item(PyInt(0), s1)>>) : s1 \in SmallSpecs, s2 \in SmallSpecs}
    \cup {PyDict(<<Item(PyInt(d), s1)>>) : s1 \in SmallSpecs, d \in 0..1}
    \cup {PyDict(<<Item(PyInt(0), s1), Item(PyInt(2), s1), Item(PyInt(1), s1)>>) : s1 \in SmallSpecs}

\* The groups of the docstring's second example.
DocGroups ==
    PyList(<<PyDict(<<Item(LabelA, PyList(<<PyInt(0), PyInt(2)>>)),
                      Item(LabelB, PyList(<<PyInt(1), PyInt(3)>>))>>),
             PyDict(<<Item(PyTuple(<<PyInt(0), PyInt(2)>>), LabelAbc),
                      Item(PyTuple(<<PyInt(1)>>), LabelD)>>)>>)

\* -------------------------------------------------------------------- spec
\* The state on entry to array2df(a, names, grps, value_name).
Start(a, names, grps, value_name) ==
    /\ arr = a
    /\ args = [dim_names |-> names, groups |-> grps, value_name |-> value_name]
    /\ dim_names = PyNone
    /\ groups = PyNone
    /\ df = PyNone
    /\ idx = 0
    /\ pc = "start"
    /\ err = "none"
    /\ retval = PyNone

\* array2df(arr) and array2df(arr, value_name=...).
DefaultCalls ==
    \E a \in DefaultArrays, vn \in ValueNames : Start(a, PyNone, PyNone, vn)

\* array2df(arr, dim_names=...).
NamedCalls ==
    \E sh \in Shapes, vn \in {Value, ArrayValue} :
        \E names \in DimNamesFor(Len(sh)) : Start(Arange(sh), names, PyNone, vn)

\* array2df(arr, groups=...) on the one-dimensional arrays.
GroupCalls1 ==
    \E n \in 0..MaxLen :
        \/ \E spec \in LabelKeyedSpecs : \E g \in GroupsFor1(spec) :
              Start(Arange(<<n>>), PyNone, g, Value)
        \/ \E spec \in TupleKeyedSpecs : \E g \in GroupsFor1(spec) :
              Start(Arange(<<n>>), PyNone, g, Value)
        \/ \E spec \in IntKeyedSpecs : \E g \in GroupsFor1(spec) :
              Start(Arange(<<n>>), PyNone, g, Value)
        \/ \E spec \in ListSpecs : \E g \in GroupsFor1(spec) :
              Start(Arange(<<n>>), PyNone, g, Value)
        \/ \E spec \in MixedSpecs : \E g \in GroupsFor1(spec) :
              Start(Arange(<<n>>), PyNone, g, Value)

\* array2df(arr, groups=...) on the two-dimensional arrays, the two
\* dimensions named by default or both "first".
GroupCalls2 ==
    \E sh \in [1..2 -> 0..MaxLen], g \in GroupsFor2,
       names \in {PyNone, PyList(<<First, First>>)} :
        Start(Arange(sh), names, g, Value)

\* The docstring's second example.
DocExample ==
    Start(Arange(<<4, 3>>), PyList(<<First, Second>>), DocGroups, ArrayValue)

\* array2df(arr) on arrays of up to ExtraDims dimensions more than there are
\* letters, every dimension of length 0 or 1.
ManyDimCalls ==
    \E n \in 0..(Len(LetterPool) + ExtraDims) :
        \E sh \in [1..n -> 0..1] : Start(Arange(sh), PyNone, PyNone, Value)

Init ==
    \/ DefaultCalls
    \/ NamedCalls
    \/ GroupCalls1
    \/ GroupCalls2
    \/ DocExample
    \/ ManyDimCalls

Spec == Init /\ [][Next]_vars

\* ------------------------------------------------- vocabulary of the claims
\* Stated on their own, not through the operators that model the code.
N == Len(arr.shape)

\* Coordinates of the k-th address (k from 0) in row-major order: dimension 1
\* varies slowest, the last dimension fastest.
RowMajorAddress(shape, k) ==
    [d \in 1..Len(shape) |->
        (k \div Prod(SubSeq(shape, d + 1, Len(shape)))) % shape[d]]

\* A dict or list c has an entry for the int d; the entry.
HasEntry(c, d) ==
    IF c.t = "dict" THEN \E i \in 1..Len(c.v) : c.v[i].k = PyInt(d)
    ELSE d < Len(c.v)
EntryOf(c, d) ==
    IF c.t = "dict" THEN c.v[CHOOSE i \in 1..Len(c.v) : c.v[i].k = PyInt(d)].v
    ELSE c.v[d + 1]

\* The exception a missing entry raises.
LookupError(c) == IF c.t = "dict" THEN "KeyError" ELSE "IndexError"

KeySet(d) == {d.v[i].k : i \in 1..Len(d.v)}
PositionsBelow(n) == {PyInt(p) : p \in 0..(n - 1)}

AllKeys(d, type) == \A i \in 1..Len(d.v) : d.v[i].k.t = type
\* The positions a label-keyed item lists, and those a tuple-keyed item names.
ListedBy(item) == SeqRange(item.v.v)
NamedBy(item) == SeqRange(item.k.v)

LabelKeyed(raw) == raw.t = "dict" /\ AllKeys(raw, "str")
TupleKeyed(raw) == raw.t = "dict" /\ AllKeys(raw, "tuple")
\* Every dict the first two forms do not cover, the position-keyed ones and
\* those with keys of several types.
OtherKeyed(raw) == raw.t = "dict" /\ ~AllKeys(raw, "str") /\ ~AllKeys(raw, "tuple")

\* The distinct positions a label-keyed or tuple-keyed specification collects.
DistinctPositions(raw) ==
    IF LabelKeyed(raw) THEN UNION {ListedBy(raw.v[i]) : i \in 1..Len(raw.v)}
    ELSE UNION {NamedBy(raw.v[i]) : i \in 1..Len(raw.v)}

\* raw encodes a mapping of the positions 0..n-1 to labels, in one of the
\* forms: a sequence, position-keyed, label-keyed, tuple-keyed.
EncodesAsList(raw, n) == raw.t = "list" /\ Len(raw.v) = n
EncodesByPosition(raw, n) ==
    raw.t = "dict" /\ AllKeys(raw, "int") /\ KeySet(raw) = PositionsBelow(n)
EncodesByLabel(raw, n) ==
    /\ LabelKeyed(raw)
    /\ \A i, j \in 1..Len(raw.v) : i # j => ListedBy(raw.v[i]) \cap ListedBy(raw.v[j]) = {}
    /\ DistinctPositions(raw) = PositionsBelow(n)
EncodesByTuple(raw, n) ==
    /\ TupleKeyed(raw)
    /\ \A i, j \in 1..Len(raw.v) :
          NamedBy(raw.v[i]) \cap NamedBy(raw.v[j]) # {} => raw.v[i].v = raw.v[j].v
    /\ DistinctPositions(raw) = PositionsBelow(n)
Encodes(raw, n) ==
    \/ EncodesAsList(raw, n)
    \/ EncodesByPosition(raw, n)
    \/ EncodesByLabel(raw, n)
    \/ EncodesByTuple(raw, n)

\* The label the encoded mapping gives position p.
MappingOf(raw, p) ==
    IF raw.t = "list" THEN raw.v[p + 1]
    ELSE IF LabelKeyed(raw)
    THEN raw.v[CHOOSE i \in 1..Len(raw.v) : PyInt(p) \in ListedBy(raw.v[i])].k
    ELSE IF TupleKeyed(raw)
    THEN raw.v[CHOOSE i \in 1..Len(raw.v) : PyInt(p) \in NamedBy(raw.v[i])].v
    ELSE EntryOf(raw, p)

\* groups was given, with an entry for exactly the dimensions of the array.
GroupsGiven == args.groups # PyNone
GroupsForEveryDim ==
    /\ GroupsGiven
    /\ Len(args.groups.v) = N
    /\ \A d \in 0..(N - 1) : HasEntry(args.groups, d)
RawSpec(d) == EntryOf(args.groups, d - 1)

DefaultNaming == args.dim_names = PyNone /\ args.groups = PyNone

\* Where the call stands: MakeGroups went through; the frame exists.
Prepared == pc \notin {"start", "named"} /\ groups # PyNone
Framed == df # PyNone
NoTable == retval = PyNone
\* The call raised before the frame was created.
RaisedUnframed(e) == pc = "raised" /\ err = e /\ ~Framed /\ NoTable

\* The name of dimension d (from 1) and the normalized label of its position p.
NameOf(d) == EntryOf(dim_names, d - 1)
NormLabel(d, p) == EntryOf(EntryOf(groups, d - 1), p)

\* The dimension whose label is written last into column c, 0 if none is.
LastNamed(c) ==
    LET ds == {d \in 1..N : NameOf(d) = c}
    IN  IF ds = {} THEN 0 ELSE CHOOSE d \in ds : \A e \in ds : e <= d

\* Row k (from 1) of the table a label function gives: every column holds
\* the label of the last dimension of that name, the element if there is none.
ExpectedRow(k, Lab(_, _)) ==
    LET adr == RowMajorAddress(arr.shape, k - 1)
    IN  [c \in SeqRange(retval.columns) |->
            IF LastNamed(c) = 0 THEN arr.data[adr]
            ELSE Lab(LastNamed(c), adr[LastNamed(c)])]

ExpectedColumns == <<args.value_name>> \o [d \in 1..N |-> NameOf(d)]

\* ------------------------------------------------------------------ claims
\* C1 as stated: the returned table has product(shape) rows, and row k is the
\* k-th address in row-major order: the value column holds the element at
\* that address and, for every dimension d, column dim_names[d] holds the
\* normalized group label of the address's coordinate in d.
C1_EveryColumnHoldsItsDimension ==
    pc = "returned" =>
        /\ Len(retval.rows) = Prod(arr.shape)
        /\ \A k \in 1..Len(retval.rows) :
              LET adr == RowMajorAddress(arr.shape, k - 1)
              IN  /\ retval.rows[k][args.value_name] = arr.data[adr]
                  /\ \A d \in 1..N : retval.rows[k][NameOf(d)] = NormLabel(d, adr[d])

\* C1 amended: the returned table has product(shape) rows and the columns
\* [value_name, dim_names[0], ..., dim_names[N-1]]; in row k, the k-th address
\* in row-major order, a column holds the normalized group label of the
\* address's coordinate in the last dimension that bears the column's name,
\* and the array element at the address if no dimension bears it.  With
\* pairwise different column names this is the claim as stated.
C1_RowPerAddressLastWriteWins ==
    pc = "returned" =>
        /\ Len(retval.rows) = Prod(arr.shape)
        /\ retval.columns = ExpectedColumns
        /\ \A k \in 1..Len(retval.rows) : retval.rows[k] = ExpectedRow(k, NormLabel)

\* A table of four rows whose two dimensions share one column name.
C1_Witness ==
    /\ pc = "returned"
    /\ arr.shape = <<2, 2>>
    /\ GroupsGiven
    /\ NameOf(1) = NameOf(2)
    /\ retval.rows[2] # retval.rows[3]

\* C2: with dim_names and groups omitted and N <= 8, the column of dimension d
\* is "dim_" + letter(d) and position p of dimension d is labelled
\* letter(d) + str(p), letters i..p; for a 2x2 array A, row k has value
\* A[k // 2, k % 2], dim_i = "i" + str(k // 2) and dim_j = "j" + str(k % 2).
C2_DefaultNames ==
    LET letter == <<"i", "j", "k", "l", "m", "n", "o", "p">>
        digit == <<"0", "1", "2", "3", "4", "5", "6", "7", "8", "9">>
        column(d) == PyStr(<<"d", "i", "m", "_", letter[d]>>)
    IN  (DefaultNaming /\ N <= 8) =>
            /\ pc = "raised" => err = "AttributeError"
            /\ pc = "returned" =>
                  /\ Len(retval.columns) = N + 1
                  /\ \A d \in 1..N : retval.columns[d + 1] = column(d)
                  /\ \A k \in 1..Len(retval.rows), d \in 1..N :
                        retval.rows[k][column(d)] =
                            PyStr(<<letter[d], digit[RowMajorAddress(arr.shape, k - 1)[d] + 1]>>)
                  /\ (arr.shape = <<2, 2>> /\ args.value_name = Value) =>
                        /\ Len(retval.rows) = 4
                        /\ \A k \in 0..3 :
                              /\ retval.rows[k + 1][Value] = arr.data[<<k \div 2, k % 2>>]
                              /\ retval.rows[k + 1][DimI] = PyStr(<<"i", digit[(k \div 2) + 1]>>)
                              /\ retval.rows[k + 1][DimJ] = PyStr(<<"j", digit[(k % 2) + 1]>>)

\* The 2x2 array with its only 1 at [1, 0], melted with default arguments.
C2_Witness ==
    /\ pc = "returned"
    /\ DefaultNaming
    /\ args.value_name = Value
    /\ arr.shape = <<2, 2>>
    /\ arr.data[<<1, 0>>] = PyInt(1)
    /\ arr.data[<<0, 1>>] = PyInt(0)

\* C3: when every dimension's group specification encodes a mapping of
\* exactly the positions 0..n-1 (position-keyed, label-keyed or tuple-keyed),
\* normalization accepts it and yields that mapping, and the returned table
\* is the table of the mappings, whatever the encodings.
C3_EncodingsAgree ==
    (GroupsForEveryDim /\ \A d \in 1..N : Encodes(RawSpec(d), arr.shape[d])) =>
        /\ pc = "raised" => err = "AttributeError"
        /\ Prepared =>
              \A d \in 1..N :
                 /\ EntryOf(groups, d - 1).t = "dict" =>
                       KeySet(EntryOf(groups, d - 1)) = PositionsBelow(arr.shape[d])
                 /\ \A p \in 0..(arr.shape[d] - 1) :
                       NormLabel(d, p) = MappingOf(RawSpec(d), p)
        /\ pc = "returned" =>
              /\ Len(retval.rows) = Prod(arr.shape)
              /\ \A k \in 1..Len(retval.rows) :
                    retval.rows[k] =
                        ExpectedRow(k, LAMBDA d, p : MappingOf(RawSpec(d), p))

\* A label-keyed and a tuple-keyed specification of two labels each, melted.
C3_Witness ==
    /\ pc = "returned"
    /\ arr.shape = <<2, 2>>
    /\ GroupsForEveryDim
    /\ EncodesByLabel(RawSpec(1), 2) /\ Len(RawSpec(1).v) = 2
    /\ EncodesByTuple(RawSpec(2), 2) /\ Len(RawSpec(2).v) = 2
    /\ retval.rows[1] # retval.rows[4]

\* C4 as stated: every group mapping that reaches the row-filling loop covers
\* exactly the positions 0..shape[d]-1 of its dimension; a specification with
\* fewer or more positions or a position out of range is rejected before.
C4_OnlyExactCoverReachesLoop ==
    (GroupsGiven /\ Framed) =>
        \A d \in 1..N :
            HasEntry(groups, d - 1) =>
                IF EntryOf(groups, d - 1).t = "dict"
                THEN KeySet(EntryOf(groups, d - 1)) = PositionsBelow(arr.shape[d])
                ELSE Len(EntryOf(groups, d - 1).v) = arr.shape[d]

\* Some dimension's specification is label-keyed or tuple-keyed and collects
\* a number of distinct positions other than the dimension's length.
CountMismatch ==
    /\ GroupsGiven
    /\ \E d \in 1..N :
          /\ HasEntry(args.groups, d - 1)
          /\ LabelKeyed(RawSpec(d)) \/ TupleKeyed(RawSpec(d))
          /\ Cardinality(DistinctPositions(RawSpec(d))) # arr.shape[d]

\* groups has an entry for a dimension the array does not have.
NamesMissingDim ==
    IF args.groups.t = "dict"
    THEN \E i \in 1..Len(args.groups.v) : args.groups.v[i].k.v >= N
    ELSE Len(args.groups.v) > N

IsDocExample ==
    /\ arr = Arange(<<4, 3>>)
    /\ args = [dim_names |-> PyList(<<First, Second>>), groups |-> DocGroups,
               value_name |-> ArrayValue]

\* A row of the columns (array_value, first, second).
DocRow(v, f, sec) == (ArrayValue :> PyInt(v)) @@ (First :> f) @@ (Second :> sec)

\* C6 as stated: the docstring's second example returns a table whose row 0
\* is (0, "A", "abc") and whose row 4 is (4, "B", "abc").
C6_Row4IsAbc ==
    (IsDocExample /\ pc = "returned") =>
        /\ retval.rows[1] = DocRow(0, LabelA, LabelAbc)
        /\ retval.rows[5] = DocRow(4, LabelB, LabelAbc)

\* C6 amended: the docstring's second example does not fail in array2df's own
\* code and returns a table of 12 rows with the columns (array_value, first,
\* second) whose row 0 is (0, "A", "abc") and whose row 4 is (4, "B", "d").
C6_Row4IsD ==
    IsDocExample =>
        /\ pc = "raised" => err = "AttributeError"
        /\ pc = "returned" =>
              /\ retval.columns = <<ArrayValue, First, Second>>
              /\ Len(retval.rows) = 12
              /\ retval.rows[1] = DocRow(0, LabelA, LabelAbc)
              /\ retval.rows[5] = DocRow(4, LabelB, LabelD)

\* The docstring's second example, returned.
C6_Witness == IsDocExample /\ pc = "returned" /\ retval.rows[12] = DocRow(11, LabelB, LabelAbc)

\* C7 as stated: no failure of the type inference, the failure of the
\* fallback conversion included, propagates out of array2df: once the rows
\* are filled the call does not raise.
C7_InferenceNeverRaises ==
    (Framed /\ idx = Len(df.rows)) => pc # "raised"

\* dim_names was given and lacks the entry of a dimension of the array.
NamesLackEntry ==
    /\ args.dim_names # PyNone
    /\ \E d \in 0..(N - 1) : ~HasEntry(args.dim_names, d)

\* groups was given and lacks the entry of a dimension d that filling the
\* first row reaches: the array has an element, and every dimension before d
\* has an entry that labels position 0.
GroupsLackUsedEntry ==
    /\ GroupsGiven
    /\ Prod(arr.shape) > 0
    /\ \E d \in 0..(N - 1) :
          /\ ~HasEntry(args.groups, d)
          /\ \A e \in 0..(d - 1) :
                /\ HasEntry(args.groups, e)
                /\ Prepared => HasEntry(EntryOf(groups, e), 0)

\* The claim's outcome for a missing entry, e giving the error by the type of
\* the argument.
MissingEntryFails(e) ==
    /\ (NamesLackEntry /\ Prepared /\ pc # "grouped") => RaisedUnframed(e[args.dim_names.t])
    /\ (GroupsLackUsedEntry /\ Framed) =>
          \/ pc = "fill" /\ idx = 0
          \/ pc = "raised" /\ err = e[args.groups.t] /\ NoTable

\* C8 as stated: a missing entry of dim_names or groups for a used dimension
\* makes array2df fail with a key error and return no table, whether the
\* argument is a dict or a list.
C8_MissingEntryIsKeyError ==
    MissingEntryFails([t \in {"dict", "list"} |-> "KeyError"])

\* C8 amended: a missing entry of dim_names or groups for a used dimension
\* makes array2df fail and return no table, with a key error when the
\* argument is a dict and with an index error when it is a list.
C8_MissingEntryIsLookupError ==
    MissingEntryFails([t \in {"dict", "list"} |-> IF t = "dict" THEN "KeyError"
                                                  ELSE "IndexError"])

\* groups as a list one entry short, on an array with elements.
C8_Witness ==
    /\ GroupsLackUsedEntry
    /\ args.groups.t = "list"
    /\ N = 2
    /\ pc = "raised"
    /\ err = "IndexError"
    /\ Framed

\* Default naming on an array of more dimensions than there are letters.
TooManyDims == DefaultNaming /\ N > 8
\* A dimension beyond the eighth has a position to label.
LetterNeeded == \E d \in 9..N : arr.shape[d] > 0

\* C9 as stated: with default naming and more than 8 dimensions array2df
\* fails with an index error instead of returning a table.
C9_AlwaysIndexError ==
    (TooManyDims /\ pc \notin {"start", "named", "grouped"}) =>
        RaisedUnframed("IndexError")

\* C9 amended: with default naming and more than 8 dimensions array2df fails
\* instead of returning a table: with an index error from the exhausted letter
\* pool when some dimension beyond the eighth has a positive length, and
\* otherwise (all of them have length 0, no label is built for them) with a
\* key error from the default dim_names, which has 8 entries.
C9_IndexOrKeyError ==
    (TooManyDims /\ pc \notin {"start", "named"}) =>
        IF LetterNeeded THEN RaisedUnframed("IndexError")
        ELSE pc = "grouped" \/ RaisedUnframed("KeyError")

\* Nine dimensions, the ninth of length 0: the key error.
C9_Witness ==
    /\ TooManyDims
    /\ ~LetterNeeded
    /\ arr.shape[1] = 1
    /\ RaisedUnframed("KeyError")

\* groups has an entry, every entry is for a dimension of the array, and
\* every entry satisfies Kind.
EveryEntry(Kind(_)) ==
    /\ GroupsGiven
    /\ Len(args.groups.v) > 0
    /\ \A i \in 1..Len(args.groups.v) :
          IF args.groups.t = "dict"
          THEN args.groups.v[i].k.v < N /\ Kind(args.groups.v[i].v)
          ELSE i <= N /\ Kind(args.groups.v[i])

\* Keys of several types.
MixedKeyed(raw) == OtherKeyed(raw) /\ ~AllKeys(raw, "int")

\* C10 as stated: a dict specification with mixed key types takes the
\* tuple-keyed path, which expands it or raises; it is not returned unchanged.
C10_MixedIsExpanded ==
    (EveryEntry(MixedKeyed) /\ pc \notin {"start", "named"}) =>
        \/ pc = "raised" /\ ~Framed
        \/ \A i \in 1..Len(groups.v) : groups.v[i] # args.groups.v[i]

\* C10 amended: a dict specification whose keys are neither all strings nor
\* all tuples takes neither path: _check_dict returns it unchanged and
\* unchecked, without expanding it, comparing a count with dim_len or raising.
C10_OtherIsReturnedUnchanged ==
    (EveryEntry(OtherKeyed) /\ pc \notin {"start", "named"}) =>
        /\ groups = args.groups
        /\ pc = "raised" => Framed

\* A dict with a str key and a tuple key went through unchanged; its keys
\* label no position, so the first row raises.
C10_Witness ==
    /\ EveryEntry(MixedKeyed)
    /\ args.groups.t = "list"
    /\ \E i \in 1..Len(args.groups.v[1].v) : args.groups.v[1].v[i].k.t = "tuple"
    /\ \E i \in 1..Len(args.groups.v[1].v) : args.groups.v[1].v[i].k.t = "str"
    /\ groups = args.groups
    /\ pc = "raised"
    /\ err = "KeyError"
    /\ Framed
=============================================================================
